---- MODULE Spec2Model ----
(***************************************************************************)
(* A model of the TAIFEX crawler: the futures extractor                    *)
(* (crawler/fut_contracts.py), the put/call ratio extractor                *)
(* (crawler/pc_ratio.py), the Mongo collections they upsert into           *)
(* (utils/db.py) and the bot that reports from them (bot/server.py,        *)
(* bot/handlers.py).                                                       *)
(*                                                                         *)
(* Texts are sequences of characters.  The characters that are not ASCII   *)
(* are written by their code point: "u2212" is the typographic minus sign, *)
(* "uFF0D" the full-width hyphen-minus.                                    *)
(***************************************************************************)
EXTENDS Integers, Sequences, FiniteSets, TLC

VARIABLES
    txt,            \* the argument of the last _clean_int call
    cleaned,        \* what that call returned or raised
    html,           \* the page text handed to the last parse_html call
    parsed,         \* what that call returned or raised
    raw,            \* the response text handed to the last ratio parse call
    df,             \* what that call returned or raised
    today,          \* the clock: a day number, weekday = today % 7
    fut_raw_html,   \* collection fut_raw_html
    fut_contracts,  \* collection fut_contracts
    pc_ratio,       \* collection pc_ratio
    futExit,        \* how the last futures run ended
    pcExit,         \* how the last ratio run ended
    runs,           \* number of crawler runs so far
    futBefore,      \* fut_raw_html and fut_contracts when the last futures
                    \* run began
    pcBefore,       \* pc_ratio when the last ratio run began
    futPrev,        \* the page, the records and the end of the futures
                    \* run before the last one
    env,            \* the value of the environment variable ADMIN_USER_IDS
    served          \* the last request to the bot and what it was served

vars == <<txt, cleaned, html, parsed, raw, df, today, fut_raw_html,
          fut_contracts, pc_ratio, futExit, pcExit, runs, futBefore,
          pcBefore, futPrev, env, served>>

botVars == <<env, served>>

crawlerVars == <<html, parsed, raw, df, today, fut_raw_html, fut_contracts,
                 pc_ratio, futExit, pcExit, runs, futBefore, pcBefore,
                 futPrev>>

futVars == <<html, parsed, fut_raw_html, fut_contracts, futExit, futBefore,
             futPrev>>

pcVars == <<raw, df, pc_ratio, pcExit, pcBefore>>

(***************************************************************************)
(* Bounds of the model.                                                    *)
(***************************************************************************)
MaxTxtLen == 3
MaxRows == 3
MaxTrail == 2
MaxDay == 5
MaxRuns == 2

(***************************************************************************)
(* Generic helpers.                                                        *)
(***************************************************************************)
NotRun == [ok |-> FALSE, err |-> "not run"]

Raise(e) == [ok |-> FALSE, err |-> e]

Return(v) == [ok |-> TRUE, val |-> v]

RECURSIVE SelectChars(_, _)
SelectChars(s, keep) ==
    IF s = <<>> THEN <<>>
    ELSE IF Head(s) \in keep
         THEN <<Head(s)>> \o SelectChars(Tail(s), keep)
         ELSE SelectChars(Tail(s), keep)

RECURSIVE SeqsUpTo(_, _)
SeqsUpTo(S, n) ==
    IF n = 0 THEN {<<>>}
    ELSE LET shorter == SeqsUpTo(S, n - 1)
         IN  shorter \cup {Append(s, c) : s \in shorter, c \in S}

(***************************************************************************)
(* _clean_int (fut_contracts.py 43-50).                                    *)
(***************************************************************************)
Digits == {"0", "1", "2", "3", "4", "5", "6", "7", "8", "9"}

DigitVal(c) ==
    CASE c = "0" -> 0 [] c = "1" -> 1 [] c = "2" -> 2 [] c = "3" -> 3
      [] c = "4" -> 4 [] c = "5" -> 5 [] c = "6" -> 6 [] c = "7" -> 7
      [] c = "8" -> 8 [] c = "9" -> 9

Whitespace == {" "}

\* str.strip(): leading and trailing whitespace removed.
RECURSIVE LStrip(_)
LStrip(s) ==
    IF s # <<>> /\ Head(s) \in Whitespace THEN LStrip(Tail(s)) ELSE s

RECURSIVE RStrip(_)
RStrip(s) ==
    IF s # <<>> /\ s[Len(s)] \in Whitespace
    THEN RStrip(SubSeq(s, 1, Len(s) - 1))
    ELSE s

Strip(s) == RStrip(LStrip(s))

\* The characters re.sub(r"[^\d\-]", "", txt) keeps: decimal digits and the
\* ASCII hyphen-minus.  Every other character is deleted, the typographic
\* and the full-width minus included.
Kept == Digits \cup {"-"}

RECURSIVE DecimalValue(_)
DecimalValue(ds) ==
    IF ds = <<>> THEN 0
    ELSE 10 * DecimalValue(SubSeq(ds, 1, Len(ds) - 1)) + DigitVal(ds[Len(ds)])

AllDigits(ds) == ds # <<>> /\ \A i \in 1..Len(ds) : ds[i] \in Digits

\* int(s) for a text of digits and hyphens: an optional sign, then digits.
PyInt(s) ==
    IF AllDigits(s) THEN Return(DecimalValue(s))
    ELSE IF s # <<>> /\ Head(s) = "-" /\ AllDigits(Tail(s))
         THEN Return(0 - DecimalValue(Tail(s)))
         ELSE Raise("ValueError")

_clean_int(t) ==
    IF t = <<>> THEN Return(0)
    ELSE LET stripped == Strip(t)
             kept == SelectChars(stripped, Kept)
             cleanedTxt == IF kept = <<>> THEN <<"0">> ELSE kept
         IN  PyInt(cleanedTxt)

(***************************************************************************)
(* The specification of _clean_int as a pure function: the argument is     *)
(* any text over Alphabet of at most MaxTxtLen characters.                 *)
(***************************************************************************)
Alphabet == {"0", "1", "2", "-", "u2212", "uFF0D", ",", " ", "x"}

Texts == SeqsUpTo(Alphabet, MaxTxtLen)

(***************************************************************************)
(* The page of the futures extractor.  A page is the date token the        *)
(* regular expression of line 66 finds in its text and the <tr> rows of    *)
(* its table in document order.  A row is                                  *)
(*   prod   the text of the <div align=center> of its                      *)
(*          <td class=left_tit rowspan=3>, "nodiv" when that cell has no   *)
(*          such div, "none" when the row has no such cell;                *)
(*   bk     whether the <tr> carries class "12bk";                         *)
(*   label  which category name the text of its first                      *)
(*          <td class=left_tit scope=row> contains, "none" when there is   *)
(*          no such cell or it names no category;                          *)
(*   cells  its <td align=right nowrap> cells in order, each with the text *)
(*          of its <font> tag, or without a <font> tag.                    *)
(***************************************************************************)
TARGETS == [n \in {"MiniTAIEX", "MicroTAIEX"} |->
               IF n = "MiniTAIEX" THEN "mtx" ELSE "imtx"]

ProdCells == {"none", "nodiv", "TAIEX"} \cup DOMAIN TARGETS

\* The category names looked for, in the order of lines 116, 130 and 143,
\* and the field each fills.
Categories == <<"prop", "itf", "foreign">>

Labels == {"none", "prop", "itf", "foreign"}

MinCells == 13

NetIndex == 12

Cell(t) == [font |-> TRUE, text |-> t]

NoFont == [font |-> FALSE, text |-> <<>>]

Filler == Cell(<<"7">>)

FillerCells(n) == [i \in 1..n |-> Filler]

Row(prod, bk, label, cells) ==
    [prod |-> prod, bk |-> bk, label |-> label, cells |-> cells]

Page(date, rows) == [date |-> date, rows |-> rows]

\* The date token of a page: whether the pattern of line 66 matches, whether
\* strptime accepts the match, and the day it names.
DateToken(d) == [match |-> TRUE, valid |-> TRUE, day |-> d]

NoDateToken == [match |-> FALSE, valid |-> FALSE, day |-> 0]

BadDateToken == [match |-> TRUE, valid |-> FALSE, day |-> 0]

EmptyPage == Page(NoDateToken, <<>>)

(***************************************************************************)
(* parse_html (fut_contracts.py 54-175).                                   *)
(***************************************************************************)
\* A page without the labelled date taken as dated day 0.
ParseDateInferred(date) ==
    IF ~date.match THEN Return(0)
    ELSE IF ~date.valid THEN Raise("ValueError: strptime")
    ELSE Return(date.day)

\* Lines 66-69: the date of the page.
ParseDate(date) ==
    IF ~date.match THEN Raise("RuntimeError: no date")
    ELSE IF ~date.valid THEN Raise("ValueError: strptime")
    ELSE Return(date.day)

\* Line 73: the rows holding a product cell, in document order.
RECURSIVE ProductCells(_, _)
ProductCells(rows, i) ==
    IF i > Len(rows) THEN <<>>
    ELSE IF rows[i].prod # "none"
         THEN <<i>> \o ProductCells(rows, i + 1)
         ELSE ProductCells(rows, i + 1)

\* find_next("tr", class_="12bk"): the first row after row i that carries
\* the class, 0 (None) when there is none.
RECURSIVE FindNextBk(_, _)
FindNextBk(rows, i) ==
    IF i + 1 > Len(rows) THEN 0
    ELSE IF rows[i + 1].bk THEN i + 1
         ELSE FindNextBk(rows, i + 1)

\* CategoryNet reading the second cell from the end of the row instead.
CategoryNetFromEnd(row, cat) ==
    IF row.label # cat THEN Raise("skip")
    ELSE IF Len(row.cells) < MinCells THEN Raise("skip")
    ELSE LET net_cell == row.cells[Len(row.cells) - 1]
         IN  IF ~net_cell.font THEN Raise("skip")
             ELSE _clean_int(net_cell.text)

\* Lines 115-123 (and 129-136, 142-149): the value one row gives to the
\* category looked for in it.  Return(n): the field is set to n;
\* Raise("skip"): the field is left as it is; any other Raise: _clean_int
\* raised.
CategoryNet(row, cat) ==
    IF row.label # cat THEN Raise("skip")
    ELSE IF Len(row.cells) < MinCells THEN Raise("skip")
    ELSE LET net_cell == row.cells[NetIndex + 1]
         IN  IF ~net_cell.font THEN Raise("skip")
             ELSE _clean_int(net_cell.text)

Skipped(r) == ~r.ok /\ r.err = "skip"

\* The value a field has after its row was handled: lines 104-109 start
\* every field at 0.
FieldAfter(r) == IF r.ok THEN r.val ELSE 0

\* The residual without the change of sign.
RetailNetUnsigned(prop_net, itf_net, foreign_net) ==
    prop_net + itf_net + foreign_net

\* Lines 156-157.
RetailNet(prop_net, itf_net, foreign_net) ==
    0 - (prop_net + itf_net + foreign_net)

\* Lines 103-157: the values of the product declared by row i.  r1, r2
\* and r3 are what the declaring row, the next row j of class 12bk and the
\* one after it, k, give; j or k is 0 when find_next found no row.
BlockValues(r1, j, r2, k, r3) ==
    IF ~r1.ok /\ ~Skipped(r1) THEN r1
    ELSE IF j # 0 /\ ~r2.ok /\ ~Skipped(r2) THEN r2
    ELSE IF j = 0 THEN Raise("AttributeError: None.find_next")
    ELSE IF k # 0 /\ ~r3.ok /\ ~Skipped(r3) THEN r3
    ELSE Return([prop_net    |-> FieldAfter(r1),
                 itf_net     |-> FieldAfter(r2),
                 foreign_net |-> FieldAfter(r3),
                 retail_net  |-> RetailNet(FieldAfter(r1), FieldAfter(r2),
                                           FieldAfter(r3))])

\* Lines 128-136 and 141-149: `if current_row:` before the row is read.
RowNet(rows, n, cat) ==
    IF n = 0 THEN Raise("skip") ELSE CategoryNet(rows[n], cat)

BlockRows(rows, i, j, k) ==
    BlockValues(CategoryNet(rows[i], Categories[1]),
                j, RowNet(rows, j, Categories[2]),
                k, RowNet(rows, k, Categories[3]))

BlockFrom(rows, i, j) ==
    BlockRows(rows, i, j, IF j = 0 THEN 0 ELSE FindNextBk(rows, j))

ProductBlock(rows, i) == BlockFrom(rows, i, FindNextBk(rows, i))

\* result[product_name] = ...: a dict keeps the position of a key it holds.
SetItem(result, name, vals) ==
    IF \E n \in 1..Len(result) : result[n].name = name
    THEN [n \in 1..Len(result) |->
             IF result[n].name = name
             THEN [name |-> name, vals |-> vals] ELSE result[n]]
    ELSE Append(result, [name |-> name, vals |-> vals])

\* Lines 84-159: the loop over the product cells.
RECURSIVE ScanProducts(_, _, _)
ScanBlock(rows, rest, result, name, b) ==
    IF ~b.ok THEN b
    ELSE ScanProducts(rows, rest, SetItem(result, name, b.val))

ScanProducts(rows, cellRows, result) ==
    IF cellRows = <<>> THEN Return(result)
    ELSE IF rows[Head(cellRows)].prod \notin DOMAIN TARGETS
    THEN ScanProducts(rows, Tail(cellRows), result)
    ELSE ScanBlock(rows, Tail(cellRows), result, rows[Head(cellRows)].prod,
                   ProductBlock(rows, Head(cellRows)))

\* Lines 167-173.
MakeDocs(date, result) ==
    [n \in 1..Len(result) |->
        [date        |-> date,
         product     |-> TARGETS[result[n].name],
         prop_net    |-> result[n].vals.prop_net,
         itf_net     |-> result[n].vals.itf_net,
         foreign_net |-> result[n].vals.foreign_net,
         retail_net  |-> result[n].vals.retail_net]]

\* Lines 166-175.
EmitDocs(date, res) ==
    IF ~res.ok THEN res
    ELSE Return([date |-> date, docs |-> MakeDocs(date, res.val)])

ParseRows(d, rows, product_cells) ==
    IF ~d.ok THEN d
    ELSE IF product_cells = <<>> THEN Raise("RuntimeError: no product cell")
    ELSE EmitDocs(d.val, ScanProducts(rows, product_cells, <<>>))

parse_html(page) ==
    ParseRows(ParseDate(page.date), page.rows, ProductCells(page.rows, 1))

(***************************************************************************)
(* The response of the ratio extractor.  A response is                     *)
(*   markup  whether the probe of lines 71-72 finds markup in it;          *)
(*   lines   without markup: its non-empty lines, each the fields its      *)
(*           delimiter separates;                                          *)
(*   tables  with markup: the tables read_html finds, each the rows of     *)
(*           cells of one <table>.                                         *)
(* A field is a token: a date text DATE_RE matches (the day it names, or   *)
(* one to_datetime rejects), the header word, a number, another text, or   *)
(* the NaN that pandas puts where a row has no field.                      *)
(***************************************************************************)
EXPECTED ==
    << "date", "put_volume", "call_volume", "pc_volume_ratio",
       "put_oi", "call_oi", "pc_oi_ratio" >>

NumCols == 7

DateTok(d) == [k |-> "date", v |-> d]

BadDateTok == [k |-> "baddate", v |-> 0]

HeaderTok == [k |-> "header", v |-> 0]

NumTok(n) == [k |-> "num", v |-> n]

TextTok == [k |-> "text", v |-> 0]

NaN == [k |-> "nan", v |-> 0]

\* DATE_RE.match (line 23).
MatchesDateRe(tok) == tok.k \in {"date", "baddate"}

\* pandas fills a row that has fewer fields than the frame has columns.
Pad(row, width) ==
    [c \in 1..width |-> IF c <= Len(row) THEN row[c] ELSE NaN]

MaxWidth(rows) ==
    IF rows = <<>> THEN 0
    ELSE CHOOSE w \in {Len(rows[n]) : n \in 1..Len(rows)} :
             \A n \in 1..Len(rows) : Len(rows[n]) <= w

\* df.columns = EXPECTED: the rows of the frame as records.
Frame(rows) ==
    [n \in 1..Len(rows) |->
        [c \in {EXPECTED[m] : m \in 1..NumCols} |->
            rows[n][CHOOSE m \in 1..NumCols : EXPECTED[m] = c]]]

\* Lines 26-48.  read_csv with header=None takes the number of columns
\* from the first line it is given, raises on a later line with more
\* fields and fills a later line with fewer.
CsvFrame(data, width) ==
    IF MaxWidth(data) > width THEN Raise("ParserError")
    ELSE IF width # NumCols THEN Raise("ValueError: columns")
    ELSE Return(Frame([n \in 1..Len(data) |-> Pad(data[n], width)]))

CsvFrom(lines, idx) ==
    CsvFrame(SubSeq(lines, idx, Len(lines)), Len(lines[idx]))

DatedLines(lines) ==
    {n \in 1..Len(lines) : lines[n] # <<>> /\ MatchesDateRe(lines[n][1])}

_parse_csv(lines) ==
    IF DatedLines(lines) = {} THEN Raise("ValueError: no date line")
    ELSE CsvFrom(lines, CHOOSE n \in DatedLines(lines) :
                            \A m \in DatedLines(lines) : n <= m)

\* Lines 53-66 for the tables from index t on.  read_html gives every
\* table as a rectangle: short rows are filled.
RECURSIVE ScanTables(_, _)
ScanTable(tbls, t, tbl, width) ==
    IF MatchesDateRe(tbl[1][1])
    THEN IF width # NumCols THEN ScanTables(tbls, t + 1)
         ELSE Return(Frame(tbl))
    ELSE IF tbl[1][1] = HeaderTok
    THEN IF Len(tbl) < 2 THEN Raise("IndexError")
         ELSE IF ~MatchesDateRe(tbl[2][1]) THEN ScanTables(tbls, t + 1)
         ELSE IF width # NumCols THEN ScanTables(tbls, t + 1)
         ELSE Return(Frame(Tail(tbl)))
    ELSE ScanTables(tbls, t + 1)

Rectangle(rows, width) == [n \in 1..Len(rows) |-> Pad(rows[n], width)]

ScanTables(tbls, t) ==
    IF t > Len(tbls) THEN Raise("ValueError: no table")
    ELSE ScanTable(tbls, t, Rectangle(tbls[t], MaxWidth(tbls[t])),
                   MaxWidth(tbls[t]))

\* Lines 51-67.  read_html raises when the text holds no table.
_parse_html(tbls) ==
    IF tbls = <<>> THEN Raise("ValueError: no tables found")
    ELSE ScanTables(tbls, 1)

\* Line 77: to_datetime of the date column.
ToDatetime(tok) ==
    IF tok.k = "date" THEN Return(tok.v)
    ELSE Raise("ValueError: to_datetime")

\* Line 78: to_numeric of a field of the other columns; a number stays the
\* token it is, and so does NaN.
ToNumeric(tok) ==
    IF tok.k = "num" \/ tok = NaN THEN Return(tok)
    ELSE Raise("ValueError: to_numeric")

Convert(c, tok) == IF c = "date" THEN ToDatetime(tok) ELSE ToNumeric(tok)

\* Lines 77-78.
Normalise(frame) ==
    IF ~frame.ok THEN frame
    ELSE IF \E n \in 1..Len(frame.val) : ~ToDatetime(frame.val[n].date).ok
    THEN Raise("ValueError: to_datetime")
    ELSE IF \E n \in 1..Len(frame.val) : \E c \in DOMAIN frame.val[n] :
                ~Convert(c, frame.val[n][c]).ok
    THEN Raise("ValueError: to_numeric")
    ELSE Return([n \in 1..Len(frame.val) |->
                    [c \in DOMAIN frame.val[n] |->
                        Convert(c, frame.val[n][c]).val]])

\* Lines 70-79.
parse(text) ==
    Normalise(IF text.markup THEN _parse_html(text.tables)
              ELSE _parse_csv(text.lines))

(***************************************************************************)
(* The collections (utils/db.py 34-45).  A collection is the sequence of   *)
(* its documents in insertion order.                                       *)
(***************************************************************************)
Matches(doc, filter) ==
    \A f \in DOMAIN filter : f \in DOMAIN doc /\ doc[f] = filter[f]

SetFields(doc, set) ==
    [f \in DOMAIN doc \cup DOMAIN set |->
        IF f \in DOMAIN set THEN set[f] ELSE doc[f]]

\* The same request carried out as an insert.
InsertOne(col, filter, set) == Append(col, SetFields(filter, set))

\* An update request {filter, {"$set": set}, upsert=True}: the first
\* document the filter matches gets the fields; when it matches none, a
\* document made of the filter and the fields is inserted.
UpdateOne(col, filter, set) ==
    IF \E n \in 1..Len(col) : Matches(col[n], filter)
    THEN LET hit == CHOOSE n \in 1..Len(col) :
                        /\ Matches(col[n], filter)
                        /\ \A m \in 1..(n - 1) : ~Matches(col[m], filter)
         IN  [col EXCEPT ![hit] = SetFields(col[hit], set)]
    ELSE Append(col, SetFields(filter, set))

\* bulk_write(ops, ordered=False): the requests of `applied` are carried
\* out, each one whole; the call raises unless all of them were.
RECURSIVE BulkWrite(_, _, _, _)
BulkWrite(col, ops, applied, n) ==
    IF n > Len(ops) THEN col
    ELSE BulkWrite(IF n \in applied
                   THEN UpdateOne(col, ops[n].filter, ops[n].set)
                   ELSE col,
                   ops, applied, n + 1)

(***************************************************************************)
(* The futures run (fut_contracts.py 179-243, 290-296).                    *)
(***************************************************************************)
WeekendFrom == 5

\* Line 181.
_is_weekend(now) == now % 7 >= WeekendFrom

Out(stage, raw_col, col, page, result) ==
    [stage |-> stage, RAW_COL |-> raw_col, COL |-> col,
     html |-> page, parsed |-> result]

\* The requests keyed by the date alone.
FutOpsByDate(docs) ==
    [n \in 1..Len(docs) |->
        [filter |-> [date |-> docs[n].date], set |-> docs[n]]]

\* Lines 230-236.
FutOps(docs) ==
    [n \in 1..Len(docs) |->
        [filter |-> [product |-> docs[n].product, date |-> docs[n].date],
         set    |-> docs[n]]]

\* Lines 228-243.
SaveDocs(saved, COL, ops, done, page, p) ==
    IF done # 1..Len(ops)
    THEN Out("bulk_write", saved, BulkWrite(COL, ops, done, 1), page, p)
    ELSE Out("done", saved, BulkWrite(COL, ops, done, 1), page, p)

\* Lines 212-243.
SaveParsed(p, now, page, rawOk, applied, RAW_COL, COL) ==
    IF ~p.ok THEN Out("parse", RAW_COL, COL, page, p)
    ELSE IF p.val.docs = <<>> THEN Out("empty", RAW_COL, COL, page, p)
    ELSE IF ~rawOk THEN Out("raw save", RAW_COL, COL, page, p)
    ELSE SaveDocs(UpdateOne(RAW_COL, [date |-> p.val.date],
                            [html_content |-> page, fetched_at |-> now]),
                  COL, FutOps(p.val.docs),
                  applied \cap (1..Len(p.val.docs)), page, p)

\* Lines 184-243.  res is the response of requests.get, rawOk whether the
\* save of the page succeeds, applied the requests of the bulk write that
\* are carried out.  The stage tells where the call ended: every stage
\* but "done" is a raise.
fut_fetch(force, now, res, rawOk, applied, RAW_COL, COL) ==
    IF _is_weekend(now) /\ ~force
    THEN Out("weekend", RAW_COL, COL, EmptyPage, NotRun)
    ELSE IF ~res.ok
    THEN Out("download", RAW_COL, COL, EmptyPage, NotRun)
    ELSE SaveParsed(parse_html(res.text), now, res.text, rawOk, applied,
                    RAW_COL, COL)

\* Lines 290-296: the exit code of the run.
FutExitCode(stage) == IF stage = "done" THEN 0 ELSE 1

(***************************************************************************)
(* The ratio run (pc_ratio.py 82-107, 113-116).                            *)
(***************************************************************************)
NeutralExit == 75

MaxOf(S) == CHOOSE x \in S : \A y \in S : y <= x

\* Lines 97-104.
PcOps(frame) ==
    [n \in 1..Len(frame) |->
        [filter |-> [date |-> frame[n].date], set |-> frame[n]]]

PcOut(stage, col, result) == [stage |-> stage, COL |-> col, df |-> result]

\* Lines 91-107.
UpsertFrame(frame, now, ops, done, COL) ==
    IF ~frame.ok THEN PcOut("parse", COL, frame)
    ELSE IF MaxOf({frame.val[n].date : n \in 1..Len(frame.val)}) < now
    THEN PcOut("neutral", COL, frame)
    ELSE IF done # 1..Len(ops)
    THEN PcOut("bulk_write", BulkWrite(COL, ops, done, 1), frame)
    ELSE PcOut("done", BulkWrite(COL, ops, done, 1), frame)

PcSave(frame, now, applied, COL) ==
    UpsertFrame(frame, now,
                IF frame.ok THEN PcOps(frame.val) ELSE <<>>,
                IF frame.ok THEN applied \cap (1..Len(frame.val)) ELSE {},
                COL)

\* Lines 86-107, with upsert=True as the run calls it.
pc_fetch(now, res, applied, COL) ==
    IF ~res.ok THEN PcOut("download", COL, NotRun)
    ELSE PcSave(parse(res.text), now, applied, COL)

\* Line 94 ends the process with 75; an exception nobody catches ends it
\* with 1.
PcExitCode(stage) ==
    IF stage = "done" THEN 0
    ELSE IF stage = "neutral" THEN NeutralExit
    ELSE 1

(***************************************************************************)
(* The pages the model draws from.                                         *)
(*   FreePages     every sequence of at most MaxRows rows of BasicRows;    *)
(*   RichPages     a block of three category rows for the small contract   *)
(*                 in which one row has any cell layout of RichCells;      *)
(*   ExamplePages  blocks whose rows end in 100,-40 / 50,-10 / -20,30,     *)
(*                 with 14 cells and with 13 cells a row.                  *)
(***************************************************************************)
Days == (MaxDay - 1)..MaxDay

DateTokens == {NoDateToken, BadDateToken} \cup {DateToken(d) : d \in Days}

Cells(lead, net_cell, trail) ==
    FillerCells(lead) \o <<net_cell>> \o FillerCells(trail)

\* Fourteen cells with the net value second to last, at index NetIndex.
Good(t) == Cells(NetIndex, Cell(t), 1)

BasicRows ==
    { Row("MiniTAIEX",  TRUE,  "prop",    Good(<<"-", "1">>)),
      Row("MicroTAIEX", TRUE,  "prop",    Good(<<"2">>)),
      Row("MiniTAIEX",  TRUE,  "none",    <<>>),
      Row("TAIEX",      TRUE,  "prop",    Good(<<"1">>)),
      Row("nodiv",      TRUE,  "prop",    Good(<<"1">>)),
      Row("none",       TRUE,  "itf",     Good(<<"1">>)),
      Row("none",       TRUE,  "foreign", Good(<<"0">>)),
      Row("none",       TRUE,  "foreign", Good(<<"-", "2">>)),
      Row("none",       TRUE,  "itf",     Cells(0, Cell(<<"1">>), 1)),
      Row("none",       TRUE,  "none",    <<>>),
      Row("none",       FALSE, "itf",     Good(<<"2">>)) }

FreePages ==
    {Page(d, rows) : d \in DateTokens, rows \in SeqsUpTo(BasicRows, MaxRows)}

CellTexts ==
    { <<>>, <<"0">>, <<"3">>, <<"-", "3">>, <<"u2212", "3">>,
      <<"uFF0D", "3">>, <<"-">>, <<"x">>, <<"1", ",", "0">> }

NetCells == {Cell(t) : t \in CellTexts} \cup {NoFont}

Leads == {0, NetIndex - 1, NetIndex, NetIndex + 1}

RichCells ==
    {Cells(lead, c, trail) : lead \in Leads, c \in NetCells, trail \in 0..MaxTrail}

RegularBlock(cells) ==
    << Row("MiniTAIEX", TRUE, Categories[1], cells[1]),
       Row("none",      TRUE, Categories[2], cells[2]),
       Row("none",      TRUE, Categories[3], cells[3]) >>

RichPages ==
    {Page(d, RegularBlock([<<Good(<<"1">>), Good(<<"1">>), Good(<<"1">>)>>
                              EXCEPT ![c] = rich])) :
        d \in DateTokens, c \in 1..3, rich \in RichCells}

ExampleTails ==
    << <<Cell(<<"1", "0", "0">>), Cell(<<"-", "4", "0">>)>>,
       <<Cell(<<"5", "0">>),      Cell(<<"-", "1", "0">>)>>,
       <<Cell(<<"-", "2", "0">>), Cell(<<"3", "0">>)>> >>

ExamplePage(lead) ==
    Page(DateToken(MaxDay),
         RegularBlock([c \in 1..3 |-> FillerCells(lead) \o ExampleTails[c]]))

ExamplePages == {ExamplePage(NetIndex), ExamplePage(NetIndex - 1)}

Pages == FreePages \cup RichPages \cup ExamplePages

(***************************************************************************)
(* The responses the ratio extractor is given: at most MaxLines rows,      *)
(* without markup as lines, with markup as one table or as one table a     *)
(* row.                                                                    *)
(***************************************************************************)
MaxLines == 2

RatioRow(first, n, v) == <<first>> \o [c \in 1..(n - 1) |-> NumTok(v)]

FirstTokens == {DateTok(d) : d \in Days} \cup {BadDateTok, HeaderTok, TextTok}

RatioRows ==
    {RatioRow(first, n, 1) :
        first \in FirstTokens, n \in (NumCols - 1)..(NumCols + 1)}

Csv(lines) == [markup |-> FALSE, lines |-> lines]

Html(tables) == [markup |-> TRUE, tables |-> tables]

RatioTexts ==
    LET seqs == SeqsUpTo(RatioRows, MaxLines)
    IN  {Csv(rows) : rows \in seqs}
        \cup {Html(<<rows>>) : rows \in seqs \ {<<>>}}
        \cup {Html([n \in 1..Len(rows) |-> <<rows[n]>>]) : rows \in seqs}

(***************************************************************************)
(* What the exchange serves to the runs of the crawler: a few pages and    *)
(* responses for every day.                                                *)
(***************************************************************************)
Block(name, texts) ==
    << Row(name,   TRUE, Categories[1], Good(texts[1])),
       Row("none", TRUE, Categories[2], Good(texts[2])),
       Row("none", TRUE, Categories[3], Good(texts[3])) >>

SiteTables ==
    { <<>>,
      Block("MiniTAIEX", <<<<"-", "1">>, <<"2">>, <<"0">>>>),
      Block("MiniTAIEX", <<<<"3">>, <<"2">>, <<"-", "1">>>>),
      SubSeq(Block("MiniTAIEX", <<<<"3">>, <<"2">>, <<"-", "1">>>>), 1, 2),
      Block("MiniTAIEX", <<<<"-", "1">>, <<"2">>, <<"0">>>>)
          \o Block("MicroTAIEX", <<<<"2">>, <<"0">>, <<"1">>>>) }

SitePages ==
    {Page(d, rows) :
        d \in {NoDateToken} \cup {DateToken(day) : day \in Days},
        rows \in SiteTables}

SiteRatioRows ==
    { <<RatioRow(DateTok(d), NumCols, 1)>> : d \in Days }
    \cup { <<RatioRow(DateTok(d), NumCols, 2)>> : d \in Days }
    \cup { <<RatioRow(DateTok(d), NumCols - 1, 1)>> : d \in Days }
    \cup { <<RatioRow(DateTok(d), NumCols, 1),
             RatioRow(DateTok(d - 1), NumCols, 2)>> : d \in Days }

SiteRatioTexts ==
    {Csv(rows) : rows \in SiteRatioRows}
    \cup {Html(<<<<RatioRow(HeaderTok, NumCols, 1)>>,
                  <<RatioRow(DateTok(d), NumCols, 1)>>>>) : d \in Days}

\* The days the rows of a response name.
DaysNamed(text) ==
    LET rowsOf(t) == {t[n] : n \in 1..Len(t)}
        rows == IF text.markup
                THEN UNION {rowsOf(text.tables[t]) : t \in 1..Len(text.tables)}
                ELSE rowsOf(text.lines)
    IN  {r[1].v : r \in {x \in rows : x[1].k = "date"}}

\* The exchange publishes no day that has not come.
PublishedBy(day, now) == day <= now

(***************************************************************************)
(* The bot (bot/server.py, bot/handlers.py) and the readers it calls       *)
(* (fut_contracts.py 246-271, pc_ratio.py 109-110).  Identities and        *)
(* tokens are texts; NoneValue stands for Python's None.                   *)
(***************************************************************************)
NoneValue == <<"None">>

\* str.split(sep): the pieces of s between the separators; the empty text
\* gives one empty piece.
RECURSIVE SplitFrom(_, _, _, _)
SplitFrom(s, sep, piece, i) ==
    IF i > Len(s) THEN <<piece>>
    ELSE IF s[i] = sep THEN <<piece>> \o SplitFrom(s, sep, <<>>, i + 1)
    ELSE SplitFrom(s, sep, Append(piece, s[i]), i + 1)

Split(s, sep) == SplitFrom(s, sep, <<>>, 1)

\* os.getenv("ADMIN_USER_IDS", ""): unset reads as the empty text.
Getenv(value, default) == IF value = NoneValue THEN default ELSE value

\* Line 26 of server.py.
AdminSet(parts) == {parts[n] : n \in 1..Len(parts)}

ADMIN_USER_IDS == AdminSet(Split(Getenv(env, <<>>), ","))

\* Python values the report looks at.
PyNone == [type |-> "NoneType", val |-> <<>>]

PyDict(doc) == [type |-> "dict", val |-> doc]

PyList(docs) == [type |-> "list", val |-> docs]

PyStr(text) == [type |-> "str", val |-> text]

\* bool(x).
Truthy(x) ==
    IF x.type = "NoneType" THEN FALSE
    ELSE IF x.type = "list" THEN x.val # <<>>
    ELSE IF x.type = "str" THEN x.val # EmptyPage
    ELSE DOMAIN x.val # {}

\* isinstance(x, dict).
IsDict(x) == x.type = "dict"

\* key in x.
HasKey(x, key) == x.type = "dict" /\ key \in DOMAIN x.val

\* sort("date", -1): the documents by falling date, equal dates in the
\* order they were inserted.
RECURSIVE SortDesc(_)
InsertDesc(doc, sorted) ==
    LET before == {n \in 1..Len(sorted) : sorted[n].date >= doc.date}
    IN  SubSeq(sorted, 1, Cardinality(before)) \o <<doc>>
            \o SubSeq(sorted, Cardinality(before) + 1, Len(sorted))

SortDesc(col) ==
    IF col = <<>> THEN <<>>
    ELSE InsertDesc(col[Len(col)], SortDesc(SubSeq(col, 1, Len(col) - 1)))

Limit(docs, n) == SubSeq(docs, 1, IF Len(docs) < n THEN Len(docs) ELSE n)

\* find_one(query, sort=[("date", -1)]).
FindOne(hits) == IF hits = <<>> THEN PyNone ELSE PyDict(SortDesc(hits)[1])

\* fut_contracts.latest(product), with count = 1.
fut_latest(COL, product) ==
    LET Hit(doc) == doc.product = product
    IN  FindOne(SelectSeq(COL, Hit))

\* pc_ratio.latest(days = 1): a list.
pc_latest(COL) == PyList(Limit(SortDesc(COL), 1))

\* fut_contracts.get_raw_html().
get_raw_html(RAW_COL) ==
    IF RAW_COL = <<>> THEN PyNone
    ELSE PyStr(SortDesc(RAW_COL)[1].html_content)

\* The texts of a report.
Placeholder == [k |-> "text", v |-> "-"]

Zero == [k |-> "int", sign |-> "", v |-> 0]

\* format_number: "0" for 0, else the sign and the digits.
format_number(val) ==
    IF val = 0 THEN Zero
    ELSE IF val > 0 THEN [k |-> "int", sign |-> "+", v |-> val]
    ELSE [k |-> "int", sign |-> "-", v |-> 0 - val]

\* f"{x:.2f}" of a number of the ratio collection.
Fixed2(tok) == [k |-> "fixed2", of |-> tok]

\* strftime of the date of a record.
DateStr(day) == [k |-> "date", v |-> day]

\* Lines 57-66 of server.py (35-44 of handlers.py).
PcRatioText(pc_data) ==
    IF Truthy(pc_data) /\ IsDict(pc_data) /\ HasKey(pc_data, "pc_oi_ratio")
    THEN Fixed2(pc_data.val.pc_oi_ratio)
    ELSE Placeholder

\* Lines 78-90.
NetText(data) ==
    IF Truthy(data) /\ HasKey(data, "retail_net")
    THEN format_number(data.val.retail_net)
    ELSE Placeholder

\* Lines 108-114.
Breakdown(mtx_data) ==
    IF Truthy(mtx_data)
       /\ \A key \in {"prop_net", "itf_net", "foreign_net"} :
              HasKey(mtx_data, key)
    THEN << format_number(mtx_data.val.prop_net),
            format_number(mtx_data.val.itf_net),
            format_number(mtx_data.val.foreign_net),
            format_number(mtx_data.val.prop_net + mtx_data.val.itf_net
                              + mtx_data.val.foreign_net) >>
    ELSE <<>>

\* Lines 98-116: the lines of the report but the time of day.
ReportOf(pc_data, mtx_data, imtx_data) ==
    [date_str  |-> IF Truthy(mtx_data) /\ HasKey(mtx_data, "date")
                   THEN DateStr(mtx_data.val.date) ELSE Placeholder,
     pc_ratio  |-> PcRatioText(pc_data),
     mtx_net   |-> NetText(mtx_data),
     imtx_net  |-> NetText(imtx_data),
     breakdown |-> Breakdown(mtx_data)]

\* server.py 51-116.
build_report(PC_COL, FUT_COL) ==
    ReportOf(pc_latest(PC_COL), fut_latest(FUT_COL, "mtx"),
             fut_latest(FUT_COL, "imtx"))

\* handlers.py 29-94: the same lines.
_build_report(PC_COL, FUT_COL) ==
    ReportOf(pc_latest(PC_COL), fut_latest(FUT_COL, "mtx"),
             fut_latest(FUT_COL, "imtx"))

(***************************************************************************)
(* Initial values of the variables a specification does not use.           *)
(***************************************************************************)
NoExit == [stage |-> "none", code |-> 0, now |-> 0]

Snapshot(raw_col, col) == [RAW_COL |-> raw_col, COL |-> col]

Ran(page, result, stage) == [html |-> page, parsed |-> result, stage |-> stage]

NoRun == Ran(EmptyPage, NotRun, "none")

Request(route, caller, arg) == [route |-> route, caller |-> caller, arg |-> arg]

Served(request, status, body, fetched) ==
    [request |-> request, status |-> status, body |-> body,
     fetched |-> fetched]

Body(kind, val) == [kind |-> kind, val |-> val]

NoRequest ==
    Served(Request("none", NoneValue, "none"), 0, Body("none", <<>>), FALSE)

BotIdle == env = NoneValue /\ served = NoRequest

CleanIdle == txt = <<>> /\ cleaned = NotRun

CrawlerIdle ==
    /\ html = EmptyPage
    /\ parsed = NotRun
    /\ raw = Csv(<<>>)
    /\ df = NotRun
    /\ today = MaxDay - 1
    /\ fut_raw_html = <<>>
    /\ fut_contracts = <<>>
    /\ pc_ratio = <<>>
    /\ futExit = NoExit
    /\ pcExit = NoExit
    /\ runs = 0
    /\ futBefore = Snapshot(<<>>, <<>>)
    /\ pcBefore = <<>>
    /\ futPrev = NoRun

(***************************************************************************)
(* SpecClean: _clean_int applied to every text of Texts.                   *)
(***************************************************************************)
InitClean == txt \in Texts /\ cleaned = NotRun /\ CrawlerIdle /\ BotIdle

CleanIntCall ==
    /\ cleaned = NotRun
    /\ cleaned' = _clean_int(txt)
    /\ UNCHANGED <<txt, crawlerVars, botVars>>

NextClean == CleanIntCall

SpecClean == InitClean /\ [][NextClean]_vars

(***************************************************************************)
(* SpecParse: parse_html applied to every page of Pages.                   *)
(***************************************************************************)
InitParse ==
    /\ CleanIdle
    /\ BotIdle
    /\ html \in Pages
    /\ parsed = NotRun
    /\ raw = Csv(<<>>) /\ df = NotRun /\ pc_ratio = <<>> /\ pcExit = NoExit
    /\ pcBefore = <<>>
    /\ today = MaxDay - 1 /\ runs = 0
    /\ fut_raw_html = <<>> /\ fut_contracts = <<>> /\ futExit = NoExit
    /\ futBefore = Snapshot(<<>>, <<>>) /\ futPrev = NoRun

ParseCall ==
    /\ parsed = NotRun
    /\ parsed' = parse_html(html)
    /\ UNCHANGED <<botVars, txt, cleaned, html, today, runs, fut_raw_html,
                   fut_contracts, futExit, futBefore, futPrev, pcVars>>

NextParse == ParseCall

SpecParse == InitParse /\ [][NextParse]_vars

(***************************************************************************)
(* SpecRatio: parse of the ratio extractor applied to every response of    *)
(* RatioTexts.                                                             *)
(***************************************************************************)
InitRatio ==
    /\ CleanIdle
    /\ BotIdle
    /\ raw \in RatioTexts
    /\ df = NotRun
    /\ pc_ratio = <<>> /\ pcExit = NoExit /\ pcBefore = <<>>
    /\ today = MaxDay - 1 /\ runs = 0
    /\ html = EmptyPage /\ parsed = NotRun
    /\ fut_raw_html = <<>> /\ fut_contracts = <<>> /\ futExit = NoExit
    /\ futBefore = Snapshot(<<>>, <<>>) /\ futPrev = NoRun

RatioParseCall ==
    /\ df = NotRun
    /\ df' = parse(raw)
    /\ UNCHANGED <<botVars, txt, cleaned, raw, pc_ratio, pcExit, pcBefore, today,
                   runs, futVars>>

NextRatio == RatioParseCall

SpecRatio == InitRatio /\ [][NextRatio]_vars

(***************************************************************************)
(* Spec: the runs of the two crawlers against the collections.             *)
(***************************************************************************)
Init == CleanIdle /\ CrawlerIdle /\ BotIdle

\* A day passes.
Tick ==
    /\ today < MaxDay
    /\ today' = today + 1
    /\ UNCHANGED <<botVars, txt, cleaned, runs, futVars, pcVars>>

\* What can go wrong outside the crawler during a futures run: the
\* download fails, the save of the page fails, or the bulk write carries
\* out only some of its requests.
FutFaults ==
    {[ok |-> TRUE, rawOk |-> TRUE, applied |-> a] :
        a \in SUBSET (1..Cardinality(DOMAIN TARGETS))}
    \cup {[ok |-> FALSE, rawOk |-> TRUE, applied |-> {}],
          [ok |-> TRUE, rawOk |-> FALSE, applied |-> {}]}

\* Lines 290-296: the run ends with what fetch did.
FutRunEnds(out) ==
    /\ html' = out.html
    /\ parsed' = out.parsed
    /\ fut_raw_html' = out.RAW_COL
    /\ fut_contracts' = out.COL
    /\ futExit' = [stage |-> out.stage, code |-> FutExitCode(out.stage),
                   now |-> today]

\* python -m crawler.fut_contracts run [--force]
FutRun ==
    /\ runs < MaxRuns
    /\ \E force \in BOOLEAN, page \in SitePages, fault \in FutFaults :
          /\ page.date.match => PublishedBy(page.date.day, today)
          /\ \E out \in {fut_fetch(force, today,
                                     [ok |-> fault.ok, text |-> page],
                                     fault.rawOk, fault.applied,
                                     fut_raw_html, fut_contracts)} :
                FutRunEnds(out)
    /\ futBefore' = Snapshot(fut_raw_html, fut_contracts)
    /\ futPrev' = Ran(html, parsed, futExit.stage)
    /\ runs' = runs + 1
    /\ UNCHANGED <<botVars, txt, cleaned, today, pcVars>>

PcRunEnds(out) ==
    /\ df' = out.df
    /\ pc_ratio' = out.COL
    /\ pcExit' = [stage |-> out.stage, code |-> PcExitCode(out.stage),
                  now |-> today]

RowCount(text) ==
    IF text.markup THEN Len(text.tables[1]) ELSE Len(text.lines)

\* python -m crawler.pc_ratio run
PcRun ==
    /\ runs < MaxRuns
    /\ \E ok \in BOOLEAN, text \in SiteRatioTexts :
          \E applied \in SUBSET (1..RowCount(text)) :
              /\ \A day \in DaysNamed(text) : PublishedBy(day, today)
              /\ ~ok => applied = {}
              /\ raw' = (IF ok THEN text ELSE Csv(<<>>))
              /\ \E out \in {pc_fetch(today, [ok |-> ok, text |-> text],
                                        applied, pc_ratio)} :
                    PcRunEnds(out)
    /\ pcBefore' = pc_ratio
    /\ runs' = runs + 1
    /\ UNCHANGED <<botVars, txt, cleaned, today, futVars>>

Next == Tick \/ FutRun \/ PcRun

Spec == Init /\ [][Next]_vars

(***************************************************************************)
(* SpecBot: the bot of server.py and the one of handlers.py answer         *)
(* messages and debug requests over the collections: pc_ratio as a ratio   *)
(* run left it, fut_contracts and fut_raw_html as the forced refetches     *)
(* leave them.                                                             *)
(***************************************************************************)
\* ADMIN_USER_IDS unset, naming one administrator, and naming one with a
\* comma after it.
EnvValues == {NoneValue, <<"a">>, <<"a", ",">>}

\* event.source.user_id: a user identity, or None when the source gives
\* none.
Uids == {<<"a">>, <<"b">>, NoneValue}

\* The token of a debug request: absent, empty or an identity.
Tokens == {NoneValue, <<>>, <<"a">>, <<"b">>}

Cols == {"", "fut_contracts", "pc_ratio"}

MessageTexts == {"/today", "/Report", "/reset_fut", "/help", "hi"}

\* str.lower.
Lower(text) == IF text = "/Report" THEN "/report" ELSE text

ReportCommands == {"/today", "/report", "/chips"}

\* get_col(name) of utils/db.py.
get_col(name) ==
    IF name = "fut_contracts" THEN fut_contracts
    ELSE IF name = "pc_ratio" THEN pc_ratio
    ELSE <<>>

\* What the refetches of the bot are served: the pages of two products
\* and the pages without rows; the download fails or all goes well.
BotPages == {page \in SitePages : Len(page.rows) \in {0, 6}}

BotFaults ==
    {fault \in FutFaults :
        ~fault.ok \/ (fault.rawOk
                        /\ fault.applied = 1..Cardinality(DOMAIN TARGETS))}

\* pc_ratio before any ratio run and after one that went through.
PcStores ==
    {<<>>} \cup
    {pc_fetch(MaxDay - 1, [ok |-> TRUE, text |-> text], 1..RowCount(text),
              <<>>).COL :
        text \in {t \in SiteRatioTexts :
                     \A day \in DaysNamed(t) : PublishedBy(day, MaxDay - 1)}}

InitBot ==
    /\ CleanIdle
    /\ env \in EnvValues
    /\ served = NoRequest
    /\ pc_ratio \in PcStores
    /\ raw = Csv(<<>>) /\ df = NotRun /\ pcExit = NoExit /\ pcBefore = <<>>
    /\ today = MaxDay - 1 /\ runs = 0
    /\ html = EmptyPage /\ parsed = NotRun
    /\ fut_raw_html = <<>> /\ fut_contracts = <<>> /\ futExit = NoExit
    /\ futBefore = Snapshot(<<>>, <<>>) /\ futPrev = NoRun

Answer(request, status, body) ==
    /\ served' = Served(request, status, body, FALSE)
    /\ UNCHANGED <<env, txt, cleaned, today, runs, futVars, pcVars>>

\* server.py 134-148.
Debug ==
    \E token \in Tokens, col \in Cols :
        IF Getenv(token, <<>>) \notin ADMIN_USER_IDS
        THEN Answer(Request("/debug", token, col), 403, Body("abort", <<>>))
        ELSE IF col = ""
        THEN Answer(Request("/debug", token, col), 400, Body("need col", <<>>))
        ELSE Answer(Request("/debug", token, col), 200,
                    Body("docs", Limit(SortDesc(get_col(col)), 5)))

\* server.py 150-161.
DebugHtml ==
    \E token \in Tokens :
        IF Getenv(token, <<>>) \notin ADMIN_USER_IDS
        THEN Answer(Request("/debug_html", token, ""), 403,
                    Body("abort", <<>>))
        ELSE IF ~Truthy(get_raw_html(fut_raw_html))
        THEN Answer(Request("/debug_html", token, ""), 404,
                    Body("no html", <<>>))
        ELSE Answer(Request("/debug_html", token, ""), 200,
                    Body("html", get_raw_html(fut_raw_html).val))

\* server.py 163-178.
DebugData ==
    \E token \in Tokens :
        IF Getenv(token, <<>>) \notin ADMIN_USER_IDS
        THEN Answer(Request("/debug_data", token, ""), 403,
                    Body("abort", <<>>))
        ELSE Answer(Request("/debug_data", token, ""), 200,
                    Body("data", [mtx      |-> fut_latest(fut_contracts, "mtx"),
                                  imtx     |-> fut_latest(fut_contracts, "imtx"),
                                  pc_ratio |-> pc_latest(pc_ratio)]))

\* server.py 205-213: the refetch and the reply that tells how it went.
Refetch(request, out) ==
    /\ FutRunEnds(out)
    /\ served' = Served(request, 200, Body("refetch", out.stage), TRUE)

\* server.py 200-213.
ResetFut(uid) ==
    IF uid \notin ADMIN_USER_IDS
    THEN Answer(Request("message", uid, "/reset_fut"), 200,
                Body("denied", <<>>))
    ELSE /\ runs < MaxRuns
         /\ \E page \in BotPages, fault \in BotFaults :
              /\ page.date.match => PublishedBy(page.date.day, today)
              /\ \E out \in {fut_fetch(TRUE, today,
                                       [ok |-> fault.ok, text |-> page],
                                       fault.rawOk, fault.applied,
                                       fut_raw_html, fut_contracts)} :
                    Refetch(Request("message", uid, "/reset_fut"), out)
         /\ futBefore' = Snapshot(fut_raw_html, fut_contracts)
         /\ futPrev' = Ran(html, parsed, futExit.stage)
         /\ runs' = runs + 1
         /\ UNCHANGED <<env, txt, cleaned, today, pcVars>>

\* server.py 183-230.
OnMessage ==
    \E uid \in Uids, text \in MessageTexts :
        IF Lower(text) \in ReportCommands
        THEN Answer(Request("message", uid, text), 200,
                    Body("report", build_report(pc_ratio, fut_contracts)))
        ELSE IF text = "/reset_fut" THEN ResetFut(uid)
        ELSE IF text = "/help"
        THEN Answer(Request("message", uid, text), 200,
                    Body("help", uid \in ADMIN_USER_IDS))
        ELSE Answer(Request("message", uid, text), 200, Body("hint", <<>>))

\* handlers.py 98-120.
HandlersOnMessage ==
    \E text \in MessageTexts :
        IF Lower(text) \in ReportCommands
        THEN Answer(Request("handlers", NoneValue, text), 200,
                    Body("report", _build_report(pc_ratio, fut_contracts)))
        ELSE IF Lower(text) = "/help"
        THEN Answer(Request("handlers", NoneValue, text), 200,
                    Body("help", FALSE))
        ELSE Answer(Request("handlers", NoneValue, text), 200,
                    Body("hint", <<>>))

NextBot == OnMessage \/ HandlersOnMessage \/ Debug \/ DebugHtml \/ DebugData

SpecBot == InitBot /\ [][NextBot]_vars

(***************************************************************************)
(* Vocabulary of the properties of parse_html.                             *)
(***************************************************************************)
Emitted == IF parsed.ok THEN parsed.val.docs ELSE <<>>

FieldOf(doc, cat) ==
    CASE cat = "prop" -> doc.prop_net
      [] cat = "itf" -> doc.itf_net
      [] cat = "foreign" -> doc.foreign_net

DeclaringRows(rows, product) ==
    {i \in 1..Len(rows) :
        rows[i].prod \in DOMAIN TARGETS /\ TARGETS[rows[i].prod] = product}

\* The block of declaring row i: row i up to, not including, the next row
\* that holds a product cell.
BlockOf(rows, i) ==
    {j \in i..Len(rows) : \A m \in (i + 1)..j : rows[m].prod = "none"}

\* The row in which the code looks for the c-th category of the block of
\* declaring row i: the row itself, the next row of class 12bk, the one
\* after that; 0 when there is none.
ExpectedRow(rows, i, c) ==
    IF c = 1 THEN i
    ELSE IF c = 2 THEN FindNextBk(rows, i)
    ELSE IF FindNextBk(rows, i) = 0 THEN 0
    ELSE FindNextBk(rows, FindNextBk(rows, i))

HasDigit(t) == \E n \in 1..Len(t) : t[n] \in Digits

\* The integers of the cells of a row that hold a number, in order.
RECURSIVE NumericSeq(_)
NumericSeq(cells) ==
    IF cells = <<>> THEN <<>>
    ELSE LET c == Head(cells)
         IN  IF c.font /\ HasDigit(c.text) /\ _clean_int(c.text).ok
             THEN <<_clean_int(c.text).val>> \o NumericSeq(Tail(cells))
             ELSE NumericSeq(Tail(cells))

SecondToLast(s) == s[Len(s) - 1]

\* C9 (as claimed): a typographic or full-width minus followed by a digit
\* string, with or without thousands separators and spaces, cleans to the
\* same integer as the ASCII minus followed by that string, namely -d.
C9_SignGlyphSameAsAscii ==
    \A g \in {"u2212", "uFF0D"} :
        ( /\ cleaned # NotRun
          /\ txt # <<>>
          /\ Head(txt) = g
          /\ HasDigit(Tail(txt))
          /\ \A n \in 2..Len(txt) : txt[n] \in Digits \cup {",", " "} )
        => /\ cleaned = _clean_int(<<"-">> \o Tail(txt))
           /\ cleaned = Return(0 - DecimalValue(SelectChars(txt, Digits)))

\* C1 (as claimed): a record is emitted for a product only if each of the
\* three categories labels a row of a block of that product on the page.
C1_EmittedOnlyIfComplete ==
    \A n \in 1..Len(Emitted) :
        \E i \in DeclaringRows(html.rows, Emitted[n].product) :
            \A c \in 1..3 :
                \E j \in BlockOf(html.rows, i) :
                    html.rows[j].label = Categories[c]

\* C10 (as claimed): a category net of 0 in an emitted record comes from a
\* row of that category, in a block of the product, one of whose cells
\* holds the number 0.
C10_ZeroMeansObservedZero ==
    \A n \in 1..Len(Emitted) : \A c \in 1..3 :
        FieldOf(Emitted[n], Categories[c]) = 0 =>
            \E i \in DeclaringRows(html.rows, Emitted[n].product) :
                \E j \in BlockOf(html.rows, i) :
                    /\ html.rows[j].label = Categories[c]
                    /\ 0 \in {NumericSeq(html.rows[j].cells)[m] :
                                 m \in 1..Len(NumericSeq(html.rows[j].cells))}

\* The declaring row whose values the record of a product holds: a later
\* declaring row of the same product overwrites an earlier one.
LastDeclaring(rows, product) ==
    CHOOSE i \in DeclaringRows(rows, product) :
        \A m \in DeclaringRows(rows, product) : m <= i

Nets(doc) == <<doc.prop_net, doc.itf_net, doc.foreign_net, doc.retail_net>>

FutKey(doc) == <<doc.date, doc.product>>

PcKey(doc) == doc.date

ResidualZero(doc) ==
    doc.retail_net + doc.prop_net + doc.itf_net + doc.foreign_net = 0

\* The last futures run got as far as parsing a page.
FutParsedPage == futExit.stage \notin {"none", "weekend", "download"}

\* The last ratio run got a frame out of the response.
PcParsedFrame == pcExit.stage \in {"neutral", "bulk_write", "done"}

Latest(frame) == MaxOf({frame[n].date : n \in 1..Len(frame)})

\* C2: every record parse_html emits and every record of fut_contracts,
\* after any sequence of runs, has retail_net + prop_net + itf_net +
\* foreign_net = 0.
C2_ResidualIsZero ==
    /\ \A n \in 1..Len(Emitted) : ResidualZero(Emitted[n])
    /\ \A n \in 1..Len(fut_contracts) : ResidualZero(fut_contracts[n])

\* A run stored a record whose residual is not 0.
C2_Witness ==
    /\ futExit.stage = "done"
    /\ \E n \in 1..Len(fut_contracts) :
          /\ fut_contracts[n].retail_net # 0
          /\ \E m \in 1..Len(Emitted) : Emitted[m] = fut_contracts[n]

\* C3: when two futures runs in a row are given the same page and both
\* go through, the second emits the records the first emitted, field for
\* field, and leaves fut_contracts as the first left it.
C3_SecondRunChangesNothing ==
    ( /\ futPrev.stage = "done"
      /\ futExit.stage = "done"
      /\ futPrev.html = html )
    => /\ parsed = futPrev.parsed
       /\ fut_contracts = futBefore.COL

\* The same page went through two runs and its records are stored.
C3_Witness ==
    /\ futPrev.stage = "done"
    /\ futExit.stage = "done"
    /\ futPrev.html = html
    /\ Len(Emitted) = 2
    /\ Len(fut_contracts) = 2

\* C4: after any sequence of runs, whether they went through or not,
\* fut_contracts holds at most one record for a (date, product) and
\* pc_ratio at most one for a date; a run keeps the keys that were there,
\* and when it goes through, the record of every key it emitted is the one
\* it emitted, so an existing key has its fields replaced.
C4_OneRecordPerKey ==
    /\ \A n, m \in 1..Len(fut_contracts) :
          FutKey(fut_contracts[n]) = FutKey(fut_contracts[m]) => n = m
    /\ \A n, m \in 1..Len(pc_ratio) :
          PcKey(pc_ratio[n]) = PcKey(pc_ratio[m]) => n = m
    /\ \A n \in 1..Len(futBefore.COL) : \E m \in 1..Len(fut_contracts) :
          FutKey(fut_contracts[m]) = FutKey(futBefore.COL[n])
    /\ \A n \in 1..Len(pcBefore) : \E m \in 1..Len(pc_ratio) :
          PcKey(pc_ratio[m]) = PcKey(pcBefore[n])
    /\ futExit.stage = "done"
          => \A n \in 1..Len(Emitted) : \E m \in 1..Len(fut_contracts) :
                fut_contracts[m] = Emitted[n]
    /\ pcExit.stage = "done"
          => \A n \in 1..Len(df.val) : \E m \in 1..Len(pc_ratio) :
                pc_ratio[m] = df.val[n]

\* A run gave new fields to a record that was there, and added none.
C4_Witness ==
    /\ futExit.stage = "done"
    /\ Len(fut_contracts) = Len(futBefore.COL)
    /\ \E n \in 1..Len(fut_contracts) :
          /\ FutKey(fut_contracts[n]) = FutKey(futBefore.COL[n])
          /\ fut_contracts[n] # futBefore.COL[n]
          /\ \E m \in 1..Len(Emitted) : Emitted[m] = fut_contracts[n]

\* C5: when the page has no labelled date, parse_html raises and gives
\* no record, and the run ends in an error having written nothing to
\* fut_raw_html nor fut_contracts.
C5_NoDateWritesNothing ==
    (FutParsedPage /\ ~html.date.match)
    => /\ ~parsed.ok
       /\ Emitted = <<>>
       /\ futExit.stage = "parse"
       /\ futExit.code = 1
       /\ fut_raw_html = futBefore.RAW_COL
       /\ fut_contracts = futBefore.COL

\* A page with a whole block and no date came after a run that stored
\* records, and the records are as they were.
C5_Witness ==
    /\ FutParsedPage
    /\ ~html.date.match
    /\ Len(html.rows) = 3
    /\ futPrev.stage = "done"
    /\ fut_contracts # <<>>

\* C7: when the date of what was fetched is before the day of the run,
\* the run ends with a neutral code, which is not the code of a failure
\* nor that of a success, and before any record is upserted; for the
\* ratio run and for the futures run.
C7_StaleEndsNeutral ==
    /\ (PcParsedFrame /\ Latest(df.val) < pcExit.now)
          => /\ pcExit.code \notin {0, 1}
             /\ pc_ratio = pcBefore
    /\ (FutParsedPage /\ parsed.ok /\ parsed.val.date < futExit.now)
          => /\ futExit.code \notin {0, 1}
             /\ fut_contracts = futBefore.COL

(***************************************************************************)
(* Vocabulary of the properties of the ratio extractor.                    *)
(***************************************************************************)
\* The data rows of a response: the lines from the first dated line on,
\* or the rows of its one table below the header.
DataRows(text) ==
    IF text.markup
    THEN IF Len(text.tables) # 1 THEN {}
         ELSE {text.tables[1][n] : n \in
                  {m \in 1..Len(text.tables[1]) :
                      /\ text.tables[1][m] # <<>>
                      /\ text.tables[1][m][1] # HeaderTok}}
    ELSE {text.lines[n] : n \in
             {m \in 1..Len(text.lines) :
                 \E d \in DatedLines(text.lines) : d <= m}}

\* C6: a data row that does not split into exactly seven fields makes
\* parse raise, in the delimited path and in the table path; parse never
\* returns a frame holding a partial record.
C6_ShortRowIsRejected ==
    (df # NotRun /\ \E row \in DataRows(raw) : Len(row) # NumCols)
    => ~df.ok

(***************************************************************************)
(* Row-level issues and the product context of parse_html.                 *)
(***************************************************************************)
\* C12 (as claimed): for every page with a date and at least one product
\* cell parse_html returns without raising, whatever its rows are: a
\* declaring row with fewer than two rows after it, rows with too few
\* cells and net cells that are not a number are skipped.
C12_RowIssuesNeverEscalate ==
    ( /\ parsed # NotRun
      /\ html.date.match
      /\ html.date.valid
      /\ ProductCells(html.rows, 1) # <<>> )
    => parsed.ok

\* The rows of a block that carry the label of a category and give a
\* value for it.
Observations(rows, block, cat) ==
    {j \in block : rows[j].label = cat /\ CategoryNet(rows[j], cat).ok}

\* C13 (as claimed): in the record of a product, a category that one row
\* of the product's block gives a value for, wherever the row sits in the
\* block, holds that value; a value that is not 0 was given by a row of
\* the block labelled with the category; and the block holds all three
\* labels, a product left before that being dropped.
C13_ValuesFromOwnBlockByLabel ==
    \A n \in 1..Len(Emitted) :
        LET rows == html.rows
            block == BlockOf(rows, LastDeclaring(rows, Emitted[n].product))
        IN  \A c \in 1..3 :
              /\ \A j \in Observations(rows, block, Categories[c]) :
                    Cardinality(Observations(rows, block, Categories[c])) = 1
                    => FieldOf(Emitted[n], Categories[c])
                           = CategoryNet(rows[j], Categories[c]).val
              /\ FieldOf(Emitted[n], Categories[c]) # 0
                    => \E j \in Observations(rows, block, Categories[c]) :
                          FieldOf(Emitted[n], Categories[c])
                              = CategoryNet(rows[j], Categories[c]).val
              /\ \E j \in block : rows[j].label = Categories[c]

(***************************************************************************)
(* What a futures run that fails leaves behind.                            *)
(***************************************************************************)
\* C14 (as claimed): when the futures fetch raises, at whichever step,
\* fut_raw_html and fut_contracts are as they were before the call, and
\* fut_contracts never holds some of the records of a page without the
\* others.
C14_FailureLeavesStoresAsBefore ==
    /\ futExit.code = 1
          => /\ fut_raw_html = futBefore.RAW_COL
             /\ fut_contracts = futBefore.COL
    /\ (FutParsedPage /\ fut_contracts # futBefore.COL)
          => \A n \in 1..Len(Emitted) : \E m \in 1..Len(fut_contracts) :
                fut_contracts[m] = Emitted[n]

(***************************************************************************)
(* Vocabulary of the properties of the bot.                                *)
(***************************************************************************)
\* The identities the environment names as administrators.
Configured == {id \in ADMIN_USER_IDS : id # <<>>}

DebugRoutes == {"/debug", "/debug_html", "/debug_data"}

\* The last request was a forced refetch or a debug request.
GatedRequest ==
    \/ served.request.route \in DebugRoutes
    \/ served.request.route = "message" /\ served.request.arg = "/reset_fut"

Refused ==
    /\ ~served.fetched
    /\ IF served.request.route \in DebugRoutes
       THEN served.status = 403
       ELSE served.body.kind = "denied"

\* C11 (as claimed): a forced refetch or a debug request from a caller
\* whose identity is not one of the configured administrators is refused
\* and fetches nothing, an empty or absent token with no administrator
\* configured included.
C11_OnlyAdministratorsPassTheGate ==
    (GatedRequest /\ served.request.caller \notin Configured) => Refused

\* The record of a collection with the latest date.
LatestOf(col) ==
    CHOOSE doc \in {col[n] : n \in 1..Len(col)} :
        \A n \in 1..Len(col) : col[n].date <= doc.date

OfProduct(product) ==
    LET Hit(doc) == doc.product = product
    IN  SelectSeq(fut_contracts, Hit)

\* C15 (as claimed): a report shows the open-interest ratio of the latest
\* record of pc_ratio, not the placeholder, whenever pc_ratio holds a
\* record, and the retail_net of the latest record of mtx and of imtx
\* whenever fut_contracts holds one.
C15_ReportReflectsStore ==
    served.body.kind = "report" =>
        /\ pc_ratio # <<>>
              => served.body.val.pc_ratio
                     = Fixed2(LatestOf(pc_ratio).pc_oi_ratio)
        /\ OfProduct("mtx") # <<>>
              => served.body.val.mtx_net
                     = format_number(LatestOf(OfProduct("mtx")).retail_net)
        /\ OfProduct("imtx") # <<>>
              => served.body.val.imtx_net
                     = format_number(LatestOf(OfProduct("imtx")).retail_net)

====
